---- MODULE Spec2Model ----
(***************************************************************************)
(* A model of exporter.py: the FactorioCollector, whose collect() is a     *)
(* generator that reads the JSON snapshot and yields six metric families,  *)
(* the `run` command that registers the collector with the default         *)
(* registry, starts the HTTP server and sleeps until interrupted, and the  *)
(* click group cli() that parses the command line and invokes `run`.       *)
(*                                                                         *)
(* A JSON value is a record [t, n, kv]: t is its JSON type, n its number   *)
(* (numbers are modelled as integers; a boolean is 1 or 0), and kv the     *)
(* entries of an object in document order, a sequence of <<key, value>>    *)
(* pairs with distinct keys (Python's dict keeps insertion order).         *)
(*                                                                         *)
(* Spec is the whole program, from the call of cli().  CollectorSpec is    *)
(* the registered collector iterated by scrapes, on a wider set of         *)
(* snapshots.  Collections are modelled one at a time: every call of       *)
(* collect() has its own locals and the collector holds only its path.     *)
(***************************************************************************)
EXTENDS Integers, Sequences, FiniteSets, TLC

(* The program's state. *)

VARIABLES
    file,          \* the file at metrics_path: [status, doc]
    ticks,         \* how often the game has rewritten the snapshot
    proc,          \* where the process is: cli (parsing the command line),
                   \* start (of run's body, lines 110-112), constructed
                   \* (line 116), registering, registered,
                   \* serving (the sleep loop of line 125) or exited
    exit,          \* why the process exited and its return code, in a set
                   \* (a negative number is the signal that killed it)
    registry,      \* the collectors of prometheus_client.core.REGISTRY
    metrics_path,  \* FactorioCollector.metrics_path
    params,        \* the parameters run is invoked with
    gen,           \* the generator collect() returned, and who iterates it
    emitted,       \* the families the generator has yielded to its caller
    prev           \* the last collection that ran to its end: the data it
                   \* read and the families it yielded

vars ==
    <<file, ticks, proc, exit, registry, metrics_path, params, gen, emitted,
      prev>>

----------------------------------------------------------------------------
(* Bounds of the model. *)
\* The most entries (players, pollution sources, type-groups, prototypes) a
\* snapshot of the model holds.
MaxEntries == 5
\* How often the game rewrites the snapshot with a later tick.
MaxTickAdvance == 1

----------------------------------------------------------------------------
(* JSON values, as json.load builds them (exporter.py line 20). *)

Null == [t |-> "null", n |-> 0, kv |-> <<>>]
Num(n) == [t |-> "num", n |-> n, kv |-> <<>>]
Bool(b) == [t |-> "bool", n |-> IF b THEN 1 ELSE 0, kv |-> <<>>]
Obj(kv) == [t |-> "obj", n |-> 0, kv |-> kv]

\* key in d, for a dict d
HasKey(v, k) == v.t = "obj" /\ \E i \in 1..Len(v.kv) : v.kv[i][1] = k

\* d[key], for a dict d that has the key
GetItem(v, k) == v.kv[CHOOSE i \in 1..Len(v.kv) : v.kv[i][1] = k][2]

\* The outcome of a step that may raise: err is "none" or the exception's
\* name, val what the step computed.
Ok(val) == [err |-> "none", val |-> val]
Raise(e) == [err |-> e, val |-> <<>>]

\* v[k] as Python evaluates it: a dict raises KeyError for an absent key, a
\* number, a boolean or None raises TypeError (not subscriptable).
Subscript(v, k) ==
    IF v.t # "obj" THEN Raise("TypeError")
    ELSE IF ~HasKey(v, k) THEN Raise("KeyError")
    ELSE Ok(GetItem(v, k))

\* v.items(): only a dict has the method.
DictItems(v) == IF v.t = "obj" THEN Ok(v.kv) ELSE Raise("AttributeError")

\* A slip: the value is 1 for every entry (the truth of a non-empty state).
IntOfTruthy(v) ==
    IF v.t \in {"bool", "num"} THEN Ok(Num(1)) ELSE Raise("TypeError")

\* int(v): 1 or 0 of a boolean, the number itself of an (integer) number;
\* int(None) and int({}) raise TypeError.
IntOf(v) ==
    IF v.t \in {"bool", "num"} THEN Ok(Num(v.n)) ELSE Raise("TypeError")

----------------------------------------------------------------------------
(* prometheus_client.metrics_core: metric families and their samples. *)

\* dict(zip(labelnames, labels))
ZipLabels(labelnames, labels) ==
    [i \in 1..Len(labelnames) |-> <<labelnames[i], labels[i]>>]

Sample(name, labels, value) == [name |-> name, labels |-> labels, value |-> value]

\* A slip: the families are made once and kept, so a family starts with the
\* samples the last collection gave it.
MetricFamilyShared(name, typ, labelnames) ==
    [name |-> name, type |-> typ, labelnames |-> labelnames,
     samples |-> IF \E i \in 1..Len(prev.result) : prev.result[i].name = name
                 THEN prev.result[CHOOSE i \in 1..Len(prev.result) :
                                     prev.result[i].name = name].samples
                 ELSE <<>>]

\* A family with no sample yet.
MetricFamily(name, typ, labelnames) ==
    [name |-> name, type |-> typ, labelnames |-> labelnames, samples |-> <<>>]

\* GaugeMetricFamily.add_metric: the sample is named as the family.
GaugeAddMetric(fam, labels, value) ==
    [fam EXCEPT !.samples =
        Append(@, Sample(fam.name, ZipLabels(fam.labelnames, labels), value))]

\* CounterMetricFamily.add_metric: the sample's name is the family's plus "_total".
CounterSampleName(name) == name \o "_total"

CounterAddMetric(fam, labels, value) ==
    [fam EXCEPT !.samples =
        Append(@, Sample(CounterSampleName(fam.name),
                         ZipLabels(fam.labelnames, labels), value))]

----------------------------------------------------------------------------
(* FactorioCollector.collect, one operator per stretch of code between two *)
(* yields.  Each returns Ok(what the stretch built) or Raise(exception).   *)

\* A slip: a file that is no JSON is read as the last good snapshot.
LoadSnapshotLenient(f) ==
    IF f.status = "absent" THEN Raise("FileNotFoundError")
    ELSE IF f.status = "no_directory" THEN Raise("NotADirectoryError")
    ELSE IF f.status = "directory" THEN Raise("IsADirectoryError")
    ELSE IF f.status = "unreadable" THEN Raise("PermissionError")
    ELSE Ok(f.doc)

\* Lines 19-20: open the file as UTF-8 text and json.load it.  f is the
\* file at metrics_path: [status, doc].  open() raises when the path names
\* nothing, runs through something that is no directory, names a directory
\* or may not be read; json.load raises UnicodeDecodeError when the bytes
\* are no UTF-8 and JSONDecodeError when the text is no JSON.
LoadSnapshot(f) ==
    IF f.status = "absent" THEN Raise("FileNotFoundError")
    ELSE IF f.status = "no_directory" THEN Raise("NotADirectoryError")
    ELSE IF f.status = "directory" THEN Raise("IsADirectoryError")
    ELSE IF f.status = "unreadable" THEN Raise("PermissionError")
    ELSE IF f.status = "not_utf8" THEN Raise("UnicodeDecodeError")
    ELSE IF f.status = "invalid" THEN Raise("JSONDecodeError")
    ELSE Ok(f.doc)

\* Lines 23-27: GaugeMetricFamily("factorio_game_tick", ..., value=
\* data["game"]["time"]["tick"]).  The constructor adds the one unlabelled
\* sample unless the value is None.
GameTickFamily(data) ==
    LET game == Subscript(data, "game") IN
    IF game.err # "none" THEN Raise(game.err) ELSE
    LET time == Subscript(game.val, "time") IN
    IF time.err # "none" THEN Raise(time.err) ELSE
    LET tick == Subscript(time.val, "tick") IN
    IF tick.err # "none" THEN Raise(tick.err) ELSE
    LET fam == MetricFamily("factorio_game_tick", "gauge", <<>>) IN
    Ok(IF tick.val.t = "null" THEN fam ELSE GaugeAddMetric(fam, <<>>, tick.val))

\* Lines 35-39: the loop over data["players"].items().
RECURSIVE PlayersLoop(_, _)
PlayersLoop(items, fam) ==
    IF items = <<>> THEN Ok(fam) ELSE
    LET username == Head(items)[1]
        state == Head(items)[2]
        connected == Subscript(state, "connected")
    IN  IF connected.err # "none" THEN Raise(connected.err) ELSE
        LET value == IntOf(connected.val) IN
        IF value.err # "none" THEN Raise(value.err) ELSE
        PlayersLoop(Tail(items), GaugeAddMetric(fam, <<username>>, value.val))

\* A slip: data.get("players", {}) for data["players"].
PlayerConnectionStatesTolerant(data) ==
    LET fam == MetricFamily("factorio_player_connected", "gauge", <<"username">>)
        players == Subscript(data, "players")
    IN  IF players.err # "none" THEN Ok(fam) ELSE
        LET items == DictItems(players.val) IN
        IF items.err # "none" THEN Raise(items.err) ELSE
        PlayersLoop(items.val, fam)

\* Lines 30-39: the player connection states.
PlayerConnectionStates(data) ==
    LET players == Subscript(data, "players") IN
    IF players.err # "none" THEN Raise(players.err) ELSE
    LET items == DictItems(players.val) IN
    IF items.err # "none" THEN Raise(items.err) ELSE
    PlayersLoop(items.val,
                MetricFamily("factorio_player_connected", "gauge", <<"username">>))

\* A slip: the production sample reads production["consumption"].
RECURSIVE PrototypesLoopSameField(_, _, _, _)
PrototypesLoopSameField(items, force_name, type_name, fams) ==
    IF items = <<>> THEN Ok(fams) ELSE
    LET labels == <<force_name, Head(items)[1], type_name>>
        c == Subscript(Head(items)[2], "consumption")
    IN  IF c.err # "none" THEN Raise(c.err) ELSE
        PrototypesLoopSameField(Tail(items), force_name, type_name,
            [fams EXCEPT !.consumption = CounterAddMetric(@, labels, c.val),
                         !.production = CounterAddMetric(@, labels, c.val)])

\* Lines 67-75: the loop over prototypes.items() of a fluids or items group.
\* fams is [consumption, production, research], the three force families.
RECURSIVE PrototypesLoop(_, _, _, _)
PrototypesLoop(items, force_name, type_name, fams) ==
    IF items = <<>> THEN Ok(fams) ELSE
    LET prototype_name == Head(items)[1]
        production == Head(items)[2]
        labels == <<force_name, prototype_name, type_name>>
        c == Subscript(production, "consumption")
    IN  IF c.err # "none" THEN Raise(c.err) ELSE
        LET p == Subscript(production, "production") IN
        IF p.err # "none" THEN Raise(p.err) ELSE
        PrototypesLoop(Tail(items), force_name, type_name,
            [fams EXCEPT !.consumption = CounterAddMetric(@, labels, c.val),
                         !.production = CounterAddMetric(@, labels, p.val)])

\* A slip: the test is "research" in force_data, true at every group of a
\* force that has one.
ResearchStepPerGroup(force_name, force_data, type_name, fams) ==
    IF ~HasKey(force_data, "research") THEN Ok(fams) ELSE
    LET progress == Subscript(GetItem(force_data, "research"), "progress") IN
    IF progress.err # "none" THEN Raise(progress.err) ELSE
    Ok([fams EXCEPT !.research = GaugeAddMetric(@, <<force_name>>, progress.val)])

\* Lines 60-64: a group named research adds force_data["research"]["progress"].
ResearchStep(force_name, force_data, type_name, fams) ==
    IF type_name # "research" THEN Ok(fams) ELSE
    LET research == Subscript(force_data, "research") IN
    IF research.err # "none" THEN Raise(research.err) ELSE
    LET progress == Subscript(research.val, "progress") IN
    IF progress.err # "none" THEN Raise(progress.err) ELSE
    Ok([fams EXCEPT !.research = GaugeAddMetric(@, <<force_name>>, progress.val)])

\* A slip: else for the second test, so every group but research is read
\* as prototypes.
PrototypesStepElse(force_name, type_name, prototypes, fams) ==
    IF type_name = "research" THEN Ok(fams) ELSE
    LET items == DictItems(prototypes) IN
    IF items.err # "none" THEN Raise(items.err) ELSE
    PrototypesLoop(items.val, force_name, type_name, fams)

\* Lines 66-75: a group named fluids or items adds its prototypes.
PrototypesStep(force_name, type_name, prototypes, fams) ==
    IF type_name \notin {"fluids", "items"} THEN Ok(fams) ELSE
    LET items == DictItems(prototypes) IN
    IF items.err # "none" THEN Raise(items.err) ELSE
    PrototypesLoop(items.val, force_name, type_name, fams)

\* Lines 59-75: the loop over force_data.items().
RECURSIVE TypesLoop(_, _, _, _)
TypesLoop(items, force_name, force_data, fams) ==
    IF items = <<>> THEN Ok(fams) ELSE
    LET type_name == Head(items)[1]
        prototypes == Head(items)[2]
        r == ResearchStep(force_name, force_data, type_name, fams)
    IN  IF r.err # "none" THEN Raise(r.err) ELSE
        LET p == PrototypesStep(force_name, type_name, prototypes, r.val) IN
        IF p.err # "none" THEN Raise(p.err) ELSE
        TypesLoop(Tail(items), force_name, force_data, p.val)

\* Lines 58-75: the loop over data["forces"].items().
RECURSIVE ForcesLoop(_, _)
ForcesLoop(items, fams) ==
    IF items = <<>> THEN Ok(fams) ELSE
    LET force_name == Head(items)[1]
        force_data == Head(items)[2]
        types == DictItems(force_data)
    IN  IF types.err # "none" THEN Raise(types.err) ELSE
        LET t == TypesLoop(types.val, force_name, force_data, fams) IN
        IF t.err # "none" THEN Raise(t.err) ELSE
        ForcesLoop(Tail(items), t.val)

\* Lines 43-57: the three force families, empty.
ForceLabels == <<"force", "prototype", "type">>

NewForceFamilies ==
    [consumption |-> MetricFamily("factorio_force_prototype_consumption",
                                  "counter", ForceLabels),
     production |-> MetricFamily("factorio_force_prototype_production",
                                 "counter", ForceLabels),
     research |-> MetricFamily("factorio_force_research_progress",
                               "gauge", <<"force">>)]

\* Lines 43-75: the force statistics, the three families filled.
ForceStats(data) ==
    LET forces == Subscript(data, "forces") IN
    IF forces.err # "none" THEN Raise(forces.err) ELSE
    LET items == DictItems(forces.val) IN
    IF items.err # "none" THEN Raise(items.err) ELSE
    ForcesLoop(items.val, NewForceFamilies)

\* Lines 86-87: the loop over data["pollution"].items().
RECURSIVE PollutionLoop(_, _)
PollutionLoop(items, fam) ==
    IF items = <<>> THEN Ok(fam) ELSE
    LET source == Head(items)[1]
        pollution == Head(items)[2]
    IN  PollutionLoop(Tail(items), GaugeAddMetric(fam, <<source>>, pollution))

\* Lines 81-87: the pollution statistics.
PollutionStats(data) ==
    LET pollution == Subscript(data, "pollution") IN
    IF pollution.err # "none" THEN Raise(pollution.err) ELSE
    LET items == DictItems(pollution.val) IN
    IF items.err # "none" THEN Raise(items.err) ELSE
    PollutionLoop(items.val,
                  MetricFamily("factorio_pollution_production", "gauge", <<"source">>))

----------------------------------------------------------------------------
(* The snapshots of the model.  Snapshots holds, with players and         *)
(* pollution as in DefaultSnapshot, every `forces` that weighs at most      *)
(* MaxEntries (a force, a type-group and a prototype weigh 1 each), and,    *)
(* with a light `forces`, every choice of the four top-level keys being     *)
(* absent or present with any of the players and pollution dicts; and one   *)
(* document that is no object.                                              *)

\* The ordered dicts (sequences of <<key, value>> pairs with distinct keys)
\* made of pairs of P that weigh at most b, an entry weighing 1 plus w[value].
RECURSIVE BoundedDicts(_, _, _)
BoundedDicts(P, w, b) ==
    {<<>>} \cup
    UNION { LET shorter == BoundedDicts(P, w, b - 1 - k)
            IN  UNION { { <<p>> \o rest :
                            rest \in { r \in shorter :
                                         \A i \in 1..Len(r) : r[i][1] # p[1] } } :
                        p \in { q \in P : w[q[2]] = k } } :
            k \in 0..(b - 1) }

\* The weight of a dict whose values weigh w.
RECURSIVE DictWeight(_, _)
DictWeight(kv, w) ==
    IF kv = <<>> THEN 0 ELSE 1 + w[Head(kv)[2]] + DictWeight(Tail(kv), w)

Weightless(V) == [v \in V |-> 0]

Values(P) == { p[2] : p \in P }

ConnectedState(b) == Obj(<< <<"connected", Bool(b)>> >>)
PlayerEntries == {"alice", "bob"} \X { ConnectedState(b) : b \in BOOLEAN }

PollutionEntries == { <<"pollution-furnace", Num(35)>>, <<"tree-proxy", Num(-2)>> }

\* A prototype's statistics; coal's lack the production.
PrototypeEntries ==
    { <<"iron-plate", Obj(<< <<"production", Num(100)>>, <<"consumption", Num(40)>> >>)>>,
      <<"water", Obj(<< <<"consumption", Num(3)>>, <<"production", Num(8)>> >>)>>,
      <<"coal", Obj(<< <<"consumption", Num(6)>> >>)>> }

PrototypeGroups ==
    { Obj(kv) : kv \in BoundedDicts(PrototypeEntries,
                                    Weightless(Values(PrototypeEntries)),
                                    MaxEntries - 2) }

ResearchGroups == { Obj(<< <<"progress", Num(42)>> >>) }
OtherGroups == { Obj(<< <<"iron-plate", Num(5)>> >>) }

\* The <<type name, group>> entries a force may hold.
GroupEntries ==
    ({"research"} \X ResearchGroups)
    \cup ({"fluids", "items"} \X PrototypeGroups)
    \cup ({"electric-network"} \X OtherGroups)

\* A group weighs its prototypes.
GroupWeight ==
    [g \in Values(GroupEntries) |-> IF g \in PrototypeGroups THEN Len(g.kv) ELSE 0]

ForceDatas ==
    { Obj(kv) : kv \in BoundedDicts(GroupEntries, GroupWeight, MaxEntries - 1) }

ForceWeight == [f \in ForceDatas |-> DictWeight(f.kv, GroupWeight)]

ForceEntries == {"player", "enemy"} \X ForceDatas

GameValue(tick) == Obj(<< <<"time", Obj(<< <<"tick", Num(tick)>> >>)>> >>)

\* A top-level key, absent or present with one of the dicts.
Section(key, dicts) == {<<>>} \cup { << <<key, Obj(kv)>> >> : kv \in dicts }

GameSections == { <<>>, << <<"game", GameValue(12345)>> >> }
PlayersSections ==
    Section("players", BoundedDicts(PlayerEntries, Weightless(Values(PlayerEntries)), 2))
PollutionSections ==
    Section("pollution",
            BoundedDicts(PollutionEntries, Weightless(Values(PollutionEntries)), 2))
ForcesSections ==
    Section("forces", BoundedDicts(ForceEntries, ForceWeight, MaxEntries))
LightForcesSections ==
    { <<>>,
      << <<"forces", Obj(<<>>)>> >>,
      << <<"forces",
           Obj(<< <<"player",
                    Obj(<< <<"research", Obj(<< <<"progress", Num(42)>> >>)>>,
                           <<"items",
                             Obj(<< <<"iron-plate",
                                      Obj(<< <<"production", Num(100)>>,
                                             <<"consumption", Num(40)>> >>)>> >>)>>
                        >>)>> >>)>> >> }

DefaultPlayers ==
    << <<"players", Obj(<< <<"alice", ConnectedState(TRUE)>>,
                          <<"bob", ConnectedState(FALSE)>> >>)>> >>
DefaultPollution == << <<"pollution", Obj(<< <<"pollution-furnace", Num(35)>> >>)>> >>

LightPlayersSections == { <<>>, << <<"players", Obj(<<>>)>> >>, DefaultPlayers }

\* The snapshots the program runs on: each top-level key absent or present.
RunSnapshots ==
    { Num(7) }
    \cup { Obj(s[1] \o s[2] \o s[3] \o s[4]) :
             s \in GameSections \X LightPlayersSections \X LightForcesSections
                   \X PollutionSections }

\* The snapshots the collector is iterated on.
Snapshots ==
    RunSnapshots
    \cup { Obj(s[1] \o s[2] \o s[3] \o s[4]) :
             s \in GameSections \X PlayersSections \X LightForcesSections
                   \X PollutionSections }
    \cup { Obj(<< <<"game", GameValue(12345)>> >> \o DefaultPlayers \o forces
               \o DefaultPollution) : forces \in ForcesSections }

----------------------------------------------------------------------------
\* --metrics-path, by default (line 99).
Path == "/factorio/script-output/metrics.json"

DefaultCollectors == {"GC_COLLECTOR", "PLATFORM_COLLECTOR", "PROCESS_COLLECTOR"}

NoGen == [pc |-> "none", caller |-> "none", data |-> Null,
          fams |-> NewForceFamilies, err |-> "none"]

Running == [cause |-> "running", code |-> {}]

NoPrev == [some |-> FALSE, data |-> Null, result |-> <<>>]

\* What open() and json.load find at metrics_path.
FileStatuses ==
    {"absent", "no_directory", "directory", "unreadable", "not_utf8",
     "invalid", "json"}

\* --metrics-port, by default (line 105).
DefaultPort == 9102

\* The parameters of run when no option is given (lines 99, 105).
DefaultParams == [metrics_path |-> Path, metrics_port |-> DefaultPort]

\* The words of a command line that click reads as options: they begin
\* with "-" and are longer than one character ("--" apart, which ends the
\* options).  An option is given as its name, or as name=value in one word.
OptionNames == {"--help", "--metrics-path", "--metrics-port", "--bogus", "-h"}
OptionValues == {"9102", "abc", "1", "metrics.json", Path}
OptionWords ==
    OptionNames \cup { n \o "=" \o v : n \in OptionNames, v \in OptionValues }

\* Every other word (a command, a value, the lone "-") is a plain word.

IsOption(word) == word \in OptionWords

\* arg.split("=", 1) of an option word: whether it holds a value, its name
\* and the value.
HasExplicitValue(word) == word \notin OptionNames
OptName(word) ==
    IF word \in OptionNames THEN word
    ELSE CHOOSE n \in OptionNames : \E v \in OptionValues : word = n \o "=" \o v
ExplicitValue(word) ==
    CHOOSE v \in OptionValues : \E n \in OptionNames : word = n \o "=" \o v

\* The values click.INT converts, and int() of them.
IntValues == {"9102", "1"}
IntOfString(v) == CASE v = "9102" -> 9102 [] v = "1" -> 1

\* The options of run that take a value (lines 97-107); --help is a flag.
RunOptions == {"--metrics-path", "--metrics-port"}

\* What the option parser holds: whether it failed, whether --help was met,
\* the values given to each option in their order, the plain words met
\* (largs) and the words left where it stopped (rargs).
NoOptions ==
    [err |-> FALSE, help |-> FALSE, path |-> <<>>, port |-> <<>>,
     largs |-> <<>>, rargs |-> <<>>]

StoreValue(st, name, value) ==
    IF name = "--metrics-path" THEN [st EXCEPT !.path = Append(@, value)]
    ELSE [st EXCEPT !.port = Append(@, value)]

\* click's OptionParser over the whole line.  "--" ends the options.  An
\* option word must name a known option: a flag takes no value, the others
\* take theirs from the word itself or from the next word, whatever that
\* word is, and fail when there is none.  A plain word is kept when options
\* and arguments may be interspersed (a command) and stops the parser
\* otherwise (the group).
RECURSIVE ScanArgs(_, _, _, _)
ScanArgs(args, valued, interspersed, st) ==
    IF args = <<>> THEN st
    ELSE LET arg == Head(args)
             rargs == Tail(args)
         IN
    IF arg = "--" THEN [st EXCEPT !.rargs = rargs]
    ELSE IF IsOption(arg) THEN
        IF OptName(arg) = "--help" THEN
            IF HasExplicitValue(arg) THEN [st EXCEPT !.err = TRUE]
            ELSE ScanArgs(rargs, valued, interspersed, [st EXCEPT !.help = TRUE])
        ELSE IF OptName(arg) \in valued THEN
            IF HasExplicitValue(arg)
            THEN ScanArgs(rargs, valued, interspersed,
                          StoreValue(st, OptName(arg), ExplicitValue(arg)))
            ELSE IF rargs = <<>> THEN [st EXCEPT !.err = TRUE]
            ELSE ScanArgs(Tail(rargs), valued, interspersed,
                          StoreValue(st, OptName(arg), Head(rargs)))
        ELSE [st EXCEPT !.err = TRUE]
    ELSE IF interspersed
    THEN ScanArgs(rargs, valued, interspersed, [st EXCEPT !.largs = Append(@, arg)])
    ELSE [st EXCEPT !.rargs = args]

Usage == [outcome |-> "usage", params |-> DefaultParams]
Help == [outcome |-> "help", params |-> DefaultParams]

\* click parsing the words after `run` (lines 96-108): the whole line is
\* scanned first, then the eager --help is processed, then the values are
\* converted (the last of a repeated option counts), then a word left over
\* is refused, and the body of run is invoked with the parameters.
ParseRunOptions(args) ==
    LET st == ScanArgs(args, RunOptions, TRUE, NoOptions) IN
    IF st.err THEN Usage
    ELSE IF st.help THEN Help
    ELSE IF st.port # <<>> /\ st.port[Len(st.port)] \notin IntValues THEN Usage
    ELSE IF st.largs \o st.rargs # <<>> THEN Usage
    ELSE [outcome |-> "run",
          params |->
              [metrics_path |-> IF st.path = <<>> THEN Path
                                ELSE st.path[Len(st.path)],
               metrics_port |-> IF st.port = <<>> THEN DefaultPort
                                ELSE IntOfString(st.port[Len(st.port)])]]

\* The group's own options, up to the first plain word: "usage", "help" or
\* "ok".
GroupOptions(argv) ==
    LET st == ScanArgs(argv, {}, FALSE, NoOptions) IN
    IF st.err THEN "usage" ELSE IF st.help THEN "help" ELSE "ok"

\* cli() (lines 91-93, 130-131) parsing the command line.  The group fails
\* with its usage on an empty line, parses its own options, and fails
\* without a command or with an unknown one (parsing the words once more
\* as its options when the unknown command looks like an option, to report
\* it as one); the words after `run` go to the command.
ParseArgs(argv) ==
    IF argv = <<>> THEN Usage
    ELSE IF GroupOptions(argv) = "usage" THEN Usage
    ELSE IF GroupOptions(argv) = "help" THEN Help
    ELSE LET rest == ScanArgs(argv, {}, FALSE, NoOptions).rargs IN
         IF rest = <<>> THEN Usage
         ELSE IF Head(rest) = "run" THEN ParseRunOptions(Tail(rest))
         ELSE IF (IsOption(Head(rest)) \/ Head(rest) = "--")
                 /\ GroupOptions(rest) = "help" THEN Help
         ELSE Usage

\* The command lines the program is started with.
Argvs ==
    { <<>>, <<"--help">>, <<"--help=1">>, <<"--help", "--bogus">>,
      <<"--help", "--metrics-port">>, <<"--help", "run", "--bogus">>,
      <<"--bogus">>, <<"-h">>, <<"--">>, <<"--", "run">>, <<"--", "--help">>,
      <<"serve">>, <<"-", "run">>,
      <<"run">>, <<"run", "--">>, <<"run", "--help">>, <<"run", "--bogus">>,
      <<"run", "--help", "--bogus">>, <<"run", "--help", "--metrics-port">>,
      <<"run", "--help", "serve">>, <<"run", "serve">>,
      <<"run", "--", "--help">>,
      <<"run", "--metrics-port">>, <<"run", "--metrics-port", "--help">>,
      <<"run", "--metrics-port", "abc", "--metrics-port", "9102">>,
      <<"run", "--metrics-port", "9102", "--metrics-port", "abc">>,
      <<"run", "--metrics-port=9102">>, <<"run", "--metrics-port=abc">>,
      <<"run", "--metrics-port=1">>, <<"run", "--metrics-port", "1">>,
      <<"run", "--metrics-port", "metrics.json">>,
      <<"run", "--metrics-path", Path>>,
      <<"run", "--metrics-path", "metrics.json">>,
      <<"run", "--metrics-path=metrics.json", "--metrics-port", "9102">>,
      <<"run", "--metrics-path", "metrics.json", "--metrics-path", Path>> }
    \cup { <<"run", "--metrics-port", v>> : v \in {"9102", "abc"} }
    \cup { <<"run", "--metrics-port", v, "--help">> : v \in {"9102", "abc"} }

Init ==
    /\ file \in [status : FileStatuses, doc : RunSnapshots]
    /\ ticks = 0
    /\ proc = "cli"
    /\ exit = Running
    /\ registry = DefaultCollectors
    /\ metrics_path = ""
    /\ params = DefaultParams
    /\ prev = NoPrev
    /\ gen = NoGen
    /\ emitted = <<>>

----------------------------------------------------------------------------
(* collect() as a generator: one action per resumption by the caller, from *)
(* one yield (or the start) to the next yield, the return or the raise.    *)

\* A slip: a family with no sample is not yielded.
YieldNonEmpty(out, fam) == IF fam.samples = <<>> THEN out ELSE Append(out, fam)

\* yield fam: the family is handed to the caller.
Yield(out, fam) == Append(out, fam)

Raised(e) == [gen EXCEPT !.pc = "raised", !.err = e]

\* What open() finds at a path: the file, at the path run was invoked
\* with, and nothing at any other path.
FileAt(path) ==
    IF path = params.metrics_path THEN file
    ELSE [status |-> "absent", doc |-> Null]

\* Lines 19-27: read the file at self.metrics_path, yield the game tick.
ResumeToGameTick ==
    /\ gen.pc = "created"
    /\ LET data == LoadSnapshot(FileAt(metrics_path)) IN
       IF data.err # "none"
       THEN gen' = Raised(data.err) /\ UNCHANGED emitted
       ELSE LET fam == GameTickFamily(data.val) IN
            IF fam.err # "none"
            THEN gen' = [Raised(fam.err) EXCEPT !.data = data.val]
                 /\ UNCHANGED emitted
            ELSE /\ gen' = [gen EXCEPT !.pc = "game_tick", !.data = data.val]
                 /\ emitted' = Yield(emitted, fam.val)
    /\ UNCHANGED <<file, ticks, proc, exit, registry, metrics_path, params, prev>>

\* Lines 30-40: yield the player connection states.
ResumeToPlayers ==
    /\ gen.pc = "game_tick"
    /\ LET fam == PlayerConnectionStates(gen.data) IN
       IF fam.err # "none"
       THEN gen' = Raised(fam.err) /\ UNCHANGED emitted
       ELSE /\ gen' = [gen EXCEPT !.pc = "player_connected"]
            /\ emitted' = Yield(emitted, fam.val)
    /\ UNCHANGED <<file, ticks, proc, exit, registry, metrics_path, params, prev>>

\* Lines 43-76: fill the three force families, yield the consumption.
ResumeToConsumption ==
    /\ gen.pc = "player_connected"
    /\ LET fams == ForceStats(gen.data) IN
       IF fams.err # "none"
       THEN gen' = Raised(fams.err) /\ UNCHANGED emitted
       ELSE /\ gen' = [gen EXCEPT !.pc = "consumption", !.fams = fams.val]
            /\ emitted' = Yield(emitted, fams.val.consumption)
    /\ UNCHANGED <<file, ticks, proc, exit, registry, metrics_path, params, prev>>

\* Line 77: yield the production.
ResumeToProduction ==
    /\ gen.pc = "consumption"
    /\ gen' = [gen EXCEPT !.pc = "production"]
    /\ emitted' = Yield(emitted, gen.fams.production)
    /\ UNCHANGED <<file, ticks, proc, exit, registry, metrics_path, params, prev>>

\* Line 78: yield the research progress.
ResumeToResearch ==
    /\ gen.pc = "production"
    /\ gen' = [gen EXCEPT !.pc = "research"]
    /\ emitted' = Yield(emitted, gen.fams.research)
    /\ UNCHANGED <<file, ticks, proc, exit, registry, metrics_path, params, prev>>

\* Lines 81-88: yield the pollution statistics.
ResumeToPollution ==
    /\ gen.pc = "research"
    /\ LET fam == PollutionStats(gen.data) IN
       IF fam.err # "none"
       THEN gen' = Raised(fam.err) /\ UNCHANGED emitted
       ELSE /\ gen' = [gen EXCEPT !.pc = "pollution"]
            /\ emitted' = Yield(emitted, fam.val)
    /\ UNCHANGED <<file, ticks, proc, exit, registry, metrics_path, params, prev>>

\* After line 88 the generator returns.
ResumeToReturn ==
    /\ gen.pc = "pollution"
    /\ gen' = [gen EXCEPT !.pc = "returned"]
    /\ UNCHANGED <<file, ticks, proc, exit, registry, metrics_path, params, prev,
                   emitted>>

----------------------------------------------------------------------------
(* cli() and the run command (lines 91-131), and the callers of collect(). *)

\* The process ends with the return code; its memory is gone.
Exit(cause, code) ==
    /\ proc' = "exited"
    /\ exit' = [cause |-> cause, code |-> {code}]
    /\ gen' = NoGen
    /\ emitted' = <<>>
    /\ prev' = NoPrev

\* cli() parsed a command line that invokes run, with its parameters.
CliInvokesRun ==
    /\ proc = "cli"
    /\ \E argv \in Argvs :
          /\ ParseArgs(argv).outcome = "run"
          /\ params' = ParseArgs(argv).params
    /\ proc' = "start"
    /\ UNCHANGED <<file, ticks, exit, registry, metrics_path, gen, emitted,
                   prev>>

\* --help: click prints the help and ends the process with return code 0.
CliHelp ==
    /\ proc = "cli"
    /\ \E argv \in Argvs : ParseArgs(argv).outcome = "help"
    /\ Exit("Help", 0)
    /\ UNCHANGED <<file, ticks, registry, metrics_path, params>>

\* A usage error: click prints it and ends the process with return code 2.
CliUsageError ==
    /\ proc = "cli"
    /\ \E argv \in Argvs : ParseArgs(argv).outcome = "usage"
    /\ Exit("UsageError", 2)
    /\ UNCHANGED <<file, ticks, registry, metrics_path, params>>

\* REGISTRY.unregister(collector), when those in `before` are gone.
Unregister(collector, before) ==
    /\ proc = "start"
    /\ registry \cap before = {}
    /\ collector \in registry
    /\ registry' = registry \ {collector}
    /\ UNCHANGED <<file, ticks, proc, exit, metrics_path, params, gen, emitted,
                   prev>>

\* Line 110.
UnregisterGC == Unregister("GC_COLLECTOR", {})

\* Line 111.
UnregisterPlatform == Unregister("PLATFORM_COLLECTOR", {"GC_COLLECTOR"})

\* Line 112.
UnregisterProcess ==
    Unregister("PROCESS_COLLECTOR", {"GC_COLLECTOR", "PLATFORM_COLLECTOR"})

\* Line 116: FactorioCollector(metrics_path=metrics_path), lines 15-16.
Construct ==
    /\ proc = "start"
    /\ registry \cap DefaultCollectors = {}
    /\ metrics_path' = params.metrics_path
    /\ proc' = "constructed"
    /\ UNCHANGED <<file, ticks, exit, registry, params, gen, emitted, prev>>

\* Lines 115-117: REGISTRY.register(collector).  The default registry
\* describes a collector that has no describe method by iterating its
\* collect().
RunRegister ==
    /\ proc = "constructed"
    /\ UNCHANGED <<registry, metrics_path>>
    /\ gen' = [NoGen EXCEPT !.pc = "created", !.caller = "register"]
    /\ emitted' = <<>>
    /\ proc' = "registering"
    /\ UNCHANGED <<file, ticks, exit, params, prev>>

\* Lines 115-117: collect() ran to its end, the collector is registered.
RegisterReturns ==
    /\ proc = "registering"
    /\ gen.pc = "returned"
    /\ registry' = registry \cup {"FactorioCollector"}
    /\ prev' = [some |-> TRUE, data |-> gen.data, result |-> emitted]
    /\ gen' = NoGen
    /\ emitted' = <<>>
    /\ proc' = "registered"
    /\ UNCHANGED <<file, ticks, exit, metrics_path, params>>

\* Lines 115-117: collect() raised; nothing in run catches it, and click
\* ends the process with the traceback and return code 1.
RegisterRaises ==
    /\ proc = "registering"
    /\ gen.pc = "raised"
    /\ Exit(gen.err, 1)
    /\ UNCHANGED <<file, ticks, registry, metrics_path, params>>

\* Line 120: the HTTP server starts in its thread; lines 123-127 sleep.
StartHttpServer ==
    /\ proc = "registered"
    /\ proc' = "serving"
    /\ UNCHANGED <<file, ticks, exit, registry, metrics_path, params, gen, emitted,
                   prev>>

\* Line 120: the port cannot be bound; the OSError ends the process.
StartHttpServerFails ==
    /\ proc = "registered"
    /\ Exit("OSError", 1)
    /\ UNCHANGED <<file, ticks, registry, metrics_path, params>>

\* A scrape request: the server thread iterates collect() of the
\* registered collector.
Scrape ==
    /\ proc = "serving"
    /\ gen.pc = "none"
    /\ "FactorioCollector" \in registry
    /\ gen' = [NoGen EXCEPT !.pc = "created", !.caller = "scrape"]
    /\ emitted' = <<>>
    /\ UNCHANGED <<file, ticks, proc, exit, registry, metrics_path, params, prev>>

\* The scrape's collect() ran to its end: the families are served.
ScrapeReturns ==
    /\ proc = "serving"
    /\ gen.pc = "returned"
    /\ prev' = [some |-> TRUE, data |-> gen.data, result |-> emitted]
    /\ gen' = NoGen
    /\ emitted' = <<>>
    /\ UNCHANGED <<file, ticks, proc, exit, registry, metrics_path, params>>

\* The scrape's collect() raised: the request fails, the families yielded
\* so far are dropped, the server thread and the sleep loop go on.
ScrapeRaises ==
    /\ proc = "serving"
    /\ gen.pc = "raised"
    /\ gen' = NoGen
    /\ emitted' = <<>>
    /\ UNCHANGED <<file, ticks, proc, exit, registry, metrics_path, params, prev>>

\* KeyboardInterrupt, in the sleep loop (lines 123-127) or before it.
\* finally: pass lets it through, click turns it into Abort and ends the
\* process with return code 1.
Interrupt ==
    /\ proc # "exited"
    /\ Exit("KeyboardInterrupt", 1)
    /\ UNCHANGED <<file, ticks, registry, metrics_path, params>>

\* SIGTERM: no handler is installed, the signal kills the process.
Terminate ==
    /\ proc # "exited"
    /\ Exit("SIGTERM", -15)
    /\ UNCHANGED <<file, ticks, registry, metrics_path, params>>

----------------------------------------------------------------------------
(* The game, which owns the snapshot file. *)

FileRemoved ==
    /\ proc # "exited"
    /\ file.status # "absent"
    /\ file' = [file EXCEPT !.status = "absent"]
    /\ UNCHANGED <<ticks, proc, exit, registry, metrics_path, params, gen, emitted,
                   prev>>

\* The path names a directory, or one of its directories is now a file.
PathReplaced ==
    /\ proc # "exited"
    /\ \E s \in {"directory", "no_directory"} :
          /\ file.status # s
          /\ file' = [file EXCEPT !.status = s]
    /\ UNCHANGED <<ticks, proc, exit, registry, metrics_path, params, gen, emitted,
                   prev>>

\* The file may no longer be read.
FileProtected ==
    /\ proc # "exited"
    /\ file.status # "unreadable"
    /\ file' = [file EXCEPT !.status = "unreadable"]
    /\ UNCHANGED <<ticks, proc, exit, registry, metrics_path, params, gen, emitted,
                   prev>>

\* The file holds something json.load rejects: text that is no JSON (a
\* write half done) or bytes that are no UTF-8 (a write cut inside a
\* character).
FileCorrupted ==
    /\ proc # "exited"
    /\ \E s \in {"invalid", "not_utf8"} :
          /\ file.status # s
          /\ file' = [file EXCEPT !.status = s]
    /\ UNCHANGED <<ticks, proc, exit, registry, metrics_path, params, gen, emitted,
                   prev>>

\* The file is back with the snapshot.
FileWritten ==
    /\ proc # "exited"
    /\ file.status # "json"
    /\ file' = [file EXCEPT !.status = "json"]
    /\ UNCHANGED <<ticks, proc, exit, registry, metrics_path, params, gen, emitted,
                   prev>>

\* The snapshot with the game's tick one later.
LaterTick(doc) ==
    Obj([i \in 1..Len(doc.kv) |->
            IF doc.kv[i][1] = "game"
            THEN <<"game", GameValue(doc.kv[i][2].kv[1][2].kv[1][2].n + 1)>>
            ELSE doc.kv[i]])

\* The game writes the snapshot of a later tick.
GameAdvances ==
    /\ proc # "exited"
    /\ ticks < MaxTickAdvance
    /\ HasKey(file.doc, "game")
    /\ ticks' = ticks + 1
    /\ file' = [status |-> "json", doc |-> LaterTick(file.doc)]
    /\ UNCHANGED <<proc, exit, registry, metrics_path, params, gen, emitted, prev>>

Next ==
    \/ ResumeToGameTick \/ ResumeToPlayers \/ ResumeToConsumption
    \/ ResumeToProduction \/ ResumeToResearch \/ ResumeToPollution
    \/ ResumeToReturn
    \/ CliInvokesRun \/ CliHelp \/ CliUsageError
    \/ UnregisterGC \/ UnregisterPlatform \/ UnregisterProcess \/ Construct
    \/ RunRegister \/ RegisterReturns \/ RegisterRaises
    \/ StartHttpServer \/ StartHttpServerFails
    \/ Scrape \/ ScrapeReturns \/ ScrapeRaises
    \/ Interrupt \/ Terminate
    \/ FileRemoved \/ PathReplaced \/ FileProtected \/ FileCorrupted
    \/ FileWritten \/ GameAdvances

Spec == Init /\ [][Next]_vars

----------------------------------------------------------------------------
(* The collector on its own: constructed on the path (line 116),           *)
(* registered, and iterated by scrapes any number of times, the file being *)
(* in any state and holding any of Snapshots.                              *)

CollectorInit ==
    /\ file \in [status : FileStatuses, doc : Snapshots]
    /\ ticks = 0
    /\ proc = "serving"
    /\ exit = Running
    /\ registry = {"FactorioCollector"}
    /\ metrics_path = Path
    /\ params = DefaultParams
    /\ prev = NoPrev
    /\ gen = NoGen
    /\ emitted = <<>>

CollectorNext ==
    \/ ResumeToGameTick \/ ResumeToPlayers \/ ResumeToConsumption
    \/ ResumeToProduction \/ ResumeToResearch \/ ResumeToPollution
    \/ ResumeToReturn
    \/ Scrape \/ ScrapeReturns \/ ScrapeRaises

CollectorSpec == CollectorInit /\ [][CollectorNext]_vars

----------------------------------------------------------------------------
(* The properties. *)

Range(seq) == { seq[i] : i \in 1..Len(seq) }

RequiredKeys == <<"game", "players", "forces", "pollution">>

\* The families in the order of their yields.
FamilyNames ==
    <<"factorio_game_tick", "factorio_player_connected",
      "factorio_force_prototype_consumption",
      "factorio_force_prototype_production",
      "factorio_force_research_progress", "factorio_pollution_production">>

\* The families yielded before the first use of each required key.
FamiliesBefore == <<0, 1, 2, 5>>

Names(out) == [i \in 1..Len(out) |-> out[i].name]

MissingKeys(data) == { i \in 1..4 : ~HasKey(data, RequiredKeys[i]) }

FirstMissing(data) ==
    CHOOSE i \in MissingKeys(data) : \A j \in MissingKeys(data) : i <= j

\* The collection read a JSON object that lacks a required key.
LacksKey == gen.data.t = "obj" /\ MissingKeys(gen.data) # {}

\* C1, as claimed: a collection that fails on a snapshot lacking a required
\* top-level key has handed no family to its caller.
C1_NoFamilyBeforeKeyError ==
    (gen.pc = "raised" /\ LacksKey) => emitted = <<>>

\* C1, amended: on a snapshot lacking a required top-level key the
\* collection never runs to its end; it raises KeyError at the first use of
\* the first such key, after yielding exactly the families that come before
\* that use: none for game, 1 for players, 2 for forces, 5 for pollution.
C1_FamiliesBeforeKeyError ==
    LacksKey =>
        LET n == FamiliesBefore[FirstMissing(gen.data)] IN
        /\ gen.pc # "returned"
        /\ Len(emitted) <= n
        /\ gen.pc = "raised" =>
              /\ gen.err = "KeyError"
              /\ Names(emitted) = SubSeq(FamilyNames, 1, n)

C1_Witness ==
    /\ gen.pc = "raised"
    /\ gen.caller = "scrape"
    /\ LacksKey
    /\ MissingKeys(gen.data) = {4}
    /\ Len(emitted) = 5

\* The exception open() or json.load raises for a file that is no JSON file.
LoadError(status) ==
    CASE status = "absent" -> "FileNotFoundError"
      [] status = "no_directory" -> "NotADirectoryError"
      [] status = "directory" -> "IsADirectoryError"
      [] status = "unreadable" -> "PermissionError"
      [] status = "not_utf8" -> "UnicodeDecodeError"
      [] status = "invalid" -> "JSONDecodeError"
      [] OTHER -> "none"

LoadErrors == { LoadError(s) : s \in FileStatuses \ {"json"} }

\* C2: when the file is absent, unreadable or no valid JSON, the first
\* resumption of collect() raises and no family has been yielded; a
\* collection that raised one of these errors has yielded none.
C2_NoFamilyWhenFileUnusable ==
    /\ [][(/\ gen.pc = "created"
           /\ gen'.pc \notin {"created", "none"}
           /\ file.status # "json")
          => (/\ gen'.pc = "raised"
              /\ gen'.err = LoadError(file.status)
              /\ emitted' = <<>>)]_vars
    /\ [](gen.err \in LoadErrors => gen.pc = "raised" /\ emitted = <<>>)

C2_Witness ==
    /\ gen.pc = "raised"
    /\ gen.caller = "scrape"
    /\ gen.err = "JSONDecodeError"
    /\ prev.some
    /\ emitted = <<>>

\* C3, as claimed: a failed collection never ends the process (it exits
\* only on --help or a usage error, or when interrupted, killed or unable
\* to bind its port), and a collection that runs to its end on the data an
\* earlier one read yields what that one yielded.
C3_FailedCollectionNeverEndsProcess ==
    /\ proc = "exited" =>
          exit.cause \in {"Help", "UsageError", "KeyboardInterrupt", "SIGTERM",
                          "OSError"}
    /\ (gen.pc = "returned" /\ prev.some /\ prev.data = gen.data)
          => emitted = prev.result

\* C4, as claimed: once its body is entered, the run command ends only
\* when it is interrupted, and the process exits with return code 0 and no
\* other, interrupted or not.
C4_ExitsZeroWhenInterrupted ==
    proc = "exited" =>
        /\ registry # DefaultCollectors
              => exit.cause \in {"KeyboardInterrupt", "SIGTERM"}
        /\ exit.code = {0}

\* The <<force, prototype, type>> triples of the fluids and items groups.
PrototypeTriples(data) ==
    UNION { UNION { { <<f[1], p[1], g[1]>> : p \in Range(g[2].kv) } :
                    g \in { h \in Range(f[2].kv) : h[1] \in {"fluids", "items"} } } :
            f \in Range(GetItem(data, "forces").kv) }

\* The triple a sample of the force prototype families is labelled with.
Triple(sample) ==
    <<sample.labels[1][2], sample.labels[2][2], sample.labels[3][2]>>

\* C5: in a collection that ran to its end the consumption and production
\* families carry the same sequence of labels, one sample for each
\* <<force, prototype, type>> with type fluids or items and no other, with
\* the prototype's consumption and production as values.
C5_ConsumptionProductionLockstep ==
    gen.pc = "returned" =>
        LET cons == emitted[3]
            prod == emitted[4]
            forces == GetItem(gen.data, "forces")
            triples == PrototypeTriples(gen.data)
        IN  /\ cons.name = "factorio_force_prototype_consumption"
            /\ prod.name = "factorio_force_prototype_production"
            /\ Len(cons.samples) = Len(prod.samples)
            /\ Len(cons.samples) = Cardinality(triples)
            /\ { Triple(cons.samples[i]) : i \in 1..Len(cons.samples) } = triples
            /\ \A i \in 1..Len(cons.samples) :
                  LET tr == Triple(cons.samples[i])
                      stats == GetItem(GetItem(GetItem(forces, tr[1]), tr[3]), tr[2])
                  IN  /\ cons.samples[i].labels = prod.samples[i].labels
                      /\ [j \in 1..3 |-> cons.samples[i].labels[j][1]] = ForceLabels
                      /\ cons.samples[i].value = GetItem(stats, "consumption")
                      /\ prod.samples[i].value = GetItem(stats, "production")

C5_Witness ==
    /\ gen.pc = "returned"
    /\ Cardinality(PrototypeTriples(gen.data)) >= 2
    /\ { tr[3] : tr \in PrototypeTriples(gen.data) } = {"fluids", "items"}
    /\ Len(emitted[4].samples) >= 2

\* The forces that have a research group.
ResearchForces(data) ==
    { f \in Range(GetItem(data, "forces").kv) : HasKey(f[2], "research") }

\* C6: in a collection that ran to its end the research progress family
\* has one sample for each force that has a research group, labelled with
\* the force and valued research.progress, and no other sample.
C6_ResearchProgressPerForce ==
    gen.pc = "returned" =>
        LET fam == emitted[5]
            forces == ResearchForces(gen.data)
        IN  /\ fam.name = "factorio_force_research_progress"
            /\ Len(fam.samples) = Cardinality(forces)
            /\ { fam.samples[i].labels : i \in 1..Len(fam.samples) }
                  = { << <<"force", f[1]>> >> : f \in forces }
            /\ \A i \in 1..Len(fam.samples) : \A f \in forces :
                  fam.samples[i].labels = << <<"force", f[1]>> >> =>
                     fam.samples[i].value
                        = GetItem(GetItem(f[2], "research"), "progress")

C6_Witness ==
    /\ gen.pc = "returned"
    /\ \E f \in Range(GetItem(gen.data, "forces").kv) :
          HasKey(f[2], "research") /\ Len(f[2].kv) >= 2
    /\ \E f \in Range(GetItem(gen.data, "forces").kv) :
          ~HasKey(f[2], "research") /\ (HasKey(f[2], "items") \/ HasKey(f[2], "fluids"))
    /\ Len(emitted[5].samples) = 1

KnownGroup(entry) == entry[1] \in {"research", "fluids", "items"}

\* The snapshot without the type-groups of other names.
WithoutUnknownGroups(data) ==
    Obj([i \in 1..Len(data.kv) |->
            IF data.kv[i][1] = "forces"
            THEN <<"forces",
                   Obj([j \in 1..Len(data.kv[i][2].kv) |->
                          <<data.kv[i][2].kv[j][1],
                            Obj(SelectSeq(data.kv[i][2].kv[j][2].kv, KnownGroup))>>])>>
            ELSE data.kv[i]])

HasUnknownGroup(data) ==
    \E f \in Range(GetItem(data, "forces").kv) : \E g \in Range(f[2].kv) :
        ~KnownGroup(g)

\* C7: type-groups of other names change nothing: the three force families
\* a collection built and yielded are those built from the snapshot without
\* these groups, and the force statistics raise if and only if they raise,
\* with the same error, on the snapshot without them.
C7_UnknownGroupsIgnored ==
    /\ gen.pc \in {"consumption", "production", "research", "pollution", "returned"}
          => ForceStats(WithoutUnknownGroups(gen.data)) = Ok(gen.fams)
    /\ gen.pc = "returned"
          => /\ emitted[3] = gen.fams.consumption
             /\ emitted[4] = gen.fams.production
             /\ emitted[5] = gen.fams.research
    /\ (gen.pc = "raised" /\ Len(emitted) = 2)
          => ForceStats(WithoutUnknownGroups(gen.data)).err = gen.err

C7_Witness ==
    /\ gen.pc = "returned"
    /\ HasUnknownGroup(gen.data)
    /\ PrototypeTriples(gen.data) # {}
    /\ WithoutUnknownGroups(gen.data) # gen.data

RECURSIVE Flatten(_)
Flatten(seqs) == IF seqs = <<>> THEN <<>> ELSE Head(seqs) \o Flatten(Tail(seqs))

\* The samples of a force prototype family, read off the snapshot: one for
\* each prototype of each fluids or items group of each force, in the
\* order of the document.
PrototypeSamplesOf(data, name, field) ==
    LET forces == GetItem(data, "forces").kv IN
    Flatten([f \in 1..Len(forces) |->
        LET groups == forces[f][2].kv IN
        Flatten([g \in 1..Len(groups) |->
            IF groups[g][1] \in {"fluids", "items"}
            THEN [p \in 1..Len(groups[g][2].kv) |->
                    [name |-> name \o "_total",
                     labels |-> << <<"force", forces[f][1]>>,
                                   <<"prototype", groups[g][2].kv[p][1]>>,
                                   <<"type", groups[g][1]>> >>,
                     value |-> GetItem(groups[g][2].kv[p][2], field)]]
            ELSE <<>>])])

\* The six families as the content of a well-formed snapshot determines
\* them, read off the snapshot and nothing else.
FamiliesOf(data) ==
    LET tick == GetItem(GetItem(GetItem(data, "game"), "time"), "tick")
        players == GetItem(data, "players").kv
        forces == GetItem(data, "forces").kv
        pollution == GetItem(data, "pollution").kv
    IN  << [name |-> "factorio_game_tick", type |-> "gauge", labelnames |-> <<>>,
            samples |->
                IF tick = Null THEN <<>>
                ELSE << [name |-> "factorio_game_tick", labels |-> <<>>,
                         value |-> tick] >>],
           [name |-> "factorio_player_connected", type |-> "gauge",
            labelnames |-> <<"username">>,
            samples |->
                [i \in 1..Len(players) |->
                    [name |-> "factorio_player_connected",
                     labels |-> << <<"username", players[i][1]>> >>,
                     value |-> Num(IF GetItem(players[i][2], "connected")
                                          = Bool(TRUE) THEN 1 ELSE 0)]]],
           [name |-> "factorio_force_prototype_consumption", type |-> "counter",
            labelnames |-> <<"force", "prototype", "type">>,
            samples |-> PrototypeSamplesOf(
                            data, "factorio_force_prototype_consumption",
                            "consumption")],
           [name |-> "factorio_force_prototype_production", type |-> "counter",
            labelnames |-> <<"force", "prototype", "type">>,
            samples |-> PrototypeSamplesOf(
                            data, "factorio_force_prototype_production",
                            "production")],
           [name |-> "factorio_force_research_progress", type |-> "gauge",
            labelnames |-> <<"force">>,
            samples |->
                Flatten([f \in 1..Len(forces) |->
                    IF HasKey(forces[f][2], "research")
                    THEN << [name |-> "factorio_force_research_progress",
                             labels |-> << <<"force", forces[f][1]>> >>,
                             value |-> GetItem(GetItem(forces[f][2], "research"),
                                               "progress")] >>
                    ELSE <<>>])],
           [name |-> "factorio_pollution_production", type |-> "gauge",
            labelnames |-> <<"source">>,
            samples |->
                [i \in 1..Len(pollution) |->
                    [name |-> "factorio_pollution_production",
                     labels |-> << <<"source", pollution[i][1]>> >>,
                     value |-> pollution[i][2]]]] >>

\* C8: a collection reads the content the file at the configured path has
\* at that moment, and one that runs to its end has yielded the families
\* that content determines, whatever collections, failures and file changes
\* came before; so it yields what an earlier collection of the same content
\* yielded.  A collection leaves the collector's metrics_path unchanged,
\* and it stays the path run was invoked with.
C8_CollectIdempotent ==
    /\ [][(gen.pc = "created" /\ gen'.pc = "game_tick")
            => (/\ file.status = "json"
                /\ gen'.data = file.doc
                /\ metrics_path = params.metrics_path)]_vars
    /\ [](gen.pc = "returned" => emitted = FamiliesOf(gen.data))
    /\ []((gen.pc = "returned" /\ prev.some /\ prev.data = gen.data)
            => emitted = prev.result)
    /\ [][gen.pc # "none" => metrics_path' = metrics_path]_vars
    /\ [](proc \in {"constructed", "registering", "registered", "serving"}
            => metrics_path = params.metrics_path)

C8_Witness ==
    /\ gen.pc = "returned"
    /\ gen.caller = "scrape"
    /\ prev.some
    /\ prev.data = gen.data
    /\ ticks > 0
    /\ file.status # "json"
    /\ metrics_path = "metrics.json"
    /\ \A i \in 1..Len(emitted) : emitted[i].samples # <<>>

\* C9: the player connection family of a collection that ran to its end
\* has one sample for each entry of players, in their order, labelled
\* username with the entry's key and valued 1 when connected is true and 0
\* when it is false, and no other sample.
C9_PlayerConnectedSamples ==
    gen.pc = "returned" =>
        LET fam == emitted[2]
            players == GetItem(gen.data, "players").kv
        IN  /\ fam.name = "factorio_player_connected"
            /\ Len(fam.samples) = Len(players)
            /\ \A i \in 1..Len(players) :
                  /\ fam.samples[i].labels = << <<"username", players[i][1]>> >>
                  /\ fam.samples[i].value =
                        Num(IF GetItem(players[i][2], "connected") = Bool(TRUE)
                            THEN 1 ELSE 0)

C9_Witness ==
    /\ gen.pc = "returned"
    /\ Len(emitted[2].samples) = 2
    /\ emitted[2].samples[1].value = Num(0)
    /\ emitted[2].samples[2].value = Num(1)

\* C10: the families are yielded in one order, each once: what a collection
\* has yielded is a prefix of the six names, and a collection that ran to
\* its end has yielded all six, also when players, forces or pollution is
\* empty.
C10_SixFamiliesInOrder ==
    /\ Len(emitted) <= 6
    /\ Names(emitted) = SubSeq(FamilyNames, 1, Len(emitted))
    /\ gen.pc = "returned" => Len(emitted) = 6

C10_Witness ==
    /\ gen.pc = "returned"
    /\ gen.caller = "scrape"
    /\ Len(emitted) = 6
    /\ \A k \in {"players", "forces", "pollution"} : GetItem(gen.data, k).kv = <<>>
    /\ \A i \in 2..6 : emitted[i].samples = <<>>

====
